---- MODULE Spec2Model ----
(***************************************************************************)
(* JvmExecutor (app/libs/executors/jvm_executor.py): the JVM backend of    *)
(* the staged-execution protocol.  One request is followed from            *)
(* execute_script through setup_command's two stages (compile, run) and,   *)
(* for the run stage, through the threads of the guest JVM process: the    *)
(* main thread running the generated wrapper and the two watchdog threads  *)
(* of the generated ResourceLimit class.                                   *)
(*                                                                         *)
(* Time is in milliseconds.  None and 0 are both written 0 for timeout and *)
(* memory_limit: the code only ever reads them as `x or 0` or by truth.    *)
(***************************************************************************)
EXTENDS Integers, Sequences, FiniteSets, TLC

\* ----------------------------------------------------------------- bounds
\* Largest value of the clock.
MaxTime == 300
\* Largest step by which the clock advances at once.
TickStep == 50
\* Longest delay between the end of a sleep and the thread running again.
SchedLatency == 10
\* Largest heap usage of the guest, in units of the memory ceiling's unit.
MaxUsage == 3

\* ------------------------------------------------------ program constants
TIMEOUT_EXIT_CODE == 124
COMPILE_ERROR_EXIT_CODE == 125
\* Thread.sleep(100) of the memory watchdog.
MEMORY_POLL_MS == 100
\* script[:200]
DETECT_WINDOW == 200

\* resource_file = None: no path.
NoFile == <<>>

\* ------------------------------------------------------------ guest source
\* A source text is a sequence of pieces; TokLen is the number of characters
\* of a piece.  "WS" is one whitespace character, "PAD195" is 195 characters
\* holding no marker.
TokLen(t) ==
    CASE t = "public class" -> 12
      [] t = "class " -> 6
      [] t = "fun main" -> 8
      [] t = "kotlin" -> 6
      [] t = "Kotlin" -> 6
      [] t = "WS" -> 1
      [] t = "PAD195" -> 195
      [] t = "System.out.println(42);" -> 23
      [] t = "() { while(true) {} }" -> 21
      [] t = " Foo {}" -> 7
      [] OTHER -> 1

RECURSIVE TextLen(_)
TextLen(s) == IF s = <<>> THEN 0 ELSE TokLen(Head(s)) + TextLen(Tail(s))

\* Offset of piece i of s (characters before it).
Offset(s, i) == TextLen(SubSeq(s, 1, i - 1))

\* script.strip(): leading and trailing whitespace removed.
RECURSIVE LStrip(_)
LStrip(s) == IF s # <<>> /\ Head(s) = "WS" THEN LStrip(Tail(s)) ELSE s

RECURSIVE RStrip(_)
RStrip(s) ==
    IF s # <<>> /\ s[Len(s)] = "WS" THEN RStrip(SubSeq(s, 1, Len(s) - 1)) ELSE s

strip(s) == LStrip(RStrip(s))

startswith(s, marker) == s # <<>> /\ Head(s) = marker

\* marker in script[:n]: the marker lies wholly in the first n characters.
InPrefix(marker, s, n) ==
    \E i \in 1..Len(s) : s[i] = marker /\ Offset(s, i) + TokLen(marker) <= n

\* str.lower() of one piece.
lower(t) == IF t = "Kotlin" THEN "kotlin" ELSE t

LowerText(s) == [i \in 1..Len(s) |-> lower(s[i])]

\* marker in script (the whole text).
InText(marker, s) == \E i \in 1..Len(s) : s[i] = marker

Scripts ==
    { <<"System.out.println(42);">>,
      <<"public class", " Foo {}">>,
      <<"WS", "class ", "System.out.println(42);">>,
      <<"fun main", "() { while(true) {} }">>,
      <<"Kotlin", "System.out.println(42);">>,
      <<"PAD195", "fun main", "() { while(true) {} }">>,
      <<"class ", "fun main", "() { while(true) {} }">> }

\* The script of the scenario `fun main() { while(true) {} }`.
LoopScript == <<"fun main", "() { while(true) {} }">>

\* ------------------------------------------------------------------- paths
\* A path is a sequence of pieces, so that str.replace can be applied to it.
TmpPaths == { <<"/tmp/a">>, <<"/tmp/w", ".kt", "/b">> }

\* str.replace(old, new) on a path.
replace(p, old, new) == [i \in 1..Len(p) |-> IF p[i] = old THEN new ELSE p[i]]

\* ------------------------------------------------------------------ guests
\* What the guest program does once compiled and started: kind "exit" ends
\* with exit code `code` (returning from its body for 0, System.exit for
\* another code), "loop" never ends, "alloc" never ends and keeps
\* allocating, "throw" lets a java.lang.Exception leave its code and "error"
\* a java.lang.Error.  `compiles` is the compiler's verdict on the assembled
\* source.
GuestCodes == {0, 3}

Guests ==
    [compiles : BOOLEAN, kind : {"exit"}, code : GuestCodes]
      \cup [compiles : BOOLEAN, kind : {"loop", "alloc", "throw", "error"},
            code : {0}]

Timeouts == {0, 250}
MemoryLimits == {0, 2}
\* timeout = 500 ms of the looping-script scenario.
SCENARIO_TIMEOUT == 500
RequestTimeouts == {0, SCENARIO_TIMEOUT}


\* -------------------------------------------------------------------- state
VARIABLES
    \* JvmExecutor.__init__ and the request
    timeout, memory_limit, script, tmp_path, req_timeout, guest,
    \* locals of setup_command
    source_file, class_name, is_kotlin, resource_file, compile_cmd, run_cmd,
    \* the scratch directory: the paths written, what the main source file
    \* holds, what the ResourceLimit file holds
    files, main_text, guard_text,
    \* position of the request, the stages yielded so far, the argument
    \* vectors handed to the ProcessRunner so far, the last StageResult
    pc, stages, runner_calls, result,
    \* the StageResult the generator was resumed with at line 149, and
    \* whether the ProcessRunner raised
    compile_result, runner_raised,
    \* what execute_script gave its caller: a result or an exception
    returned, raised,
    \* the guest process of the run stage
    now, proc, startTime, mainThread, timeoutThread, timeoutWake,
    memoryThread, memoryWake, usedMemory, crossTime, exitCause

requestVars == <<timeout, memory_limit, script, tmp_path, req_timeout, guest>>
setupVars == <<source_file, class_name, is_kotlin, resource_file, compile_cmd,
               run_cmd, files, main_text, guard_text>>
pipeVars == <<pc, stages, runner_calls, result, compile_result, runner_raised,
              returned, raised>>
procVars == <<now, proc, startTime, mainThread, timeoutThread, timeoutWake,
              memoryThread, memoryWake, usedMemory, crossTime, exitCause>>
vars == <<requestVars, setupVars, pipeVars, procVars>>

\* Every word of an argument vector is a path: a sequence of pieces.
compiler_cl == <<"javac">>
run_cl == <<"java">>

\* ------------------------------------------------------- dialect detection
\* Dialect asking for the Kotlin markers before the class markers.
Dialect_KotlinFirst(s) ==
    IF InPrefix("fun main", s, DETECT_WINDOW)
       \/ InPrefix("kotlin", LowerText(s), DETECT_WINDOW)
    THEN [ext |-> ".kt", class_name |-> "MainKt", is_kotlin |-> TRUE]
    ELSE [ext |-> ".java", class_name |-> "Main", is_kotlin |-> FALSE]

\* Lines 77-91: the three branches, giving (source file name, class, flag).
Dialect(s) ==
    IF startswith(strip(s), "public class") \/ InPrefix("class ", s, DETECT_WINDOW)
    THEN [ext |-> ".java", class_name |-> "Main", is_kotlin |-> FALSE]
    ELSE IF InPrefix("fun main", s, DETECT_WINDOW)
            \/ InPrefix("kotlin", LowerText(s), DETECT_WINDOW)
    THEN [ext |-> ".kt", class_name |-> "MainKt", is_kotlin |-> TRUE]
    ELSE [ext |-> ".java", class_name |-> "Main", is_kotlin |-> FALSE]

\* WantsGuard without the test of the dialect.
WantsGuard_AnyDialect(kotlin, t, m) == t # 0 \/ m # 0

\* Line 95: guard code is written for Java when a limit was requested.
WantsGuard(kotlin, t, m) == ~kotlin /\ (t # 0 \/ m # 0)

\* ResourceLimitSource with the timeout taken as seconds in Thread.sleep.
ResourceLimitSource_SleepSeconds(t, m) ==
    [ timeoutNanos      |-> t * 1000000,
      memoryLimitBytes  |-> m,
      sleep             |-> t * 1000,
      exitTimeoutThread |-> TIMEOUT_EXIT_CODE,
      exitMemoryThread  |-> TIMEOUT_EXIT_CODE,
      exitCheckTimeout  |-> TIMEOUT_EXIT_CODE,
      timeoutDaemon     |-> TRUE,
      memoryDaemon      |-> TRUE ]

\* ResourceLimitSource with System.exit(1) in the memory watchdog.
ResourceLimitSource_ExitOne(t, m) ==
    [ timeoutNanos      |-> t * 1000000,
      memoryLimitBytes  |-> m,
      sleep             |-> t,
      exitTimeoutThread |-> TIMEOUT_EXIT_CODE,
      exitMemoryThread  |-> 1,
      exitCheckTimeout  |-> TIMEOUT_EXIT_CODE,
      timeoutDaemon     |-> TRUE,
      memoryDaemon      |-> TRUE ]

\* ResourceLimitSource without the setDaemon(true) calls.
ResourceLimitSource_NotDaemon(t, m) ==
    [ timeoutNanos      |-> t * 1000000,
      memoryLimitBytes  |-> m,
      sleep             |-> t,
      exitTimeoutThread |-> TIMEOUT_EXIT_CODE,
      exitMemoryThread  |-> TIMEOUT_EXIT_CODE,
      exitCheckTimeout  |-> TIMEOUT_EXIT_CODE,
      timeoutDaemon     |-> FALSE,
      memoryDaemon      |-> FALSE ]

\* RESOURCE_LIMIT_TEMPLATE.format(...): the values the three placeholders
\* take at each place of the template they occur in, and the setDaemon
\* calls of lines 32 and 52.
ResourceLimitSource(t, m) ==
    [ timeoutNanos      |-> t * 1000000,
      memoryLimitBytes  |-> m,
      sleep             |-> t,
      exitTimeoutThread |-> TIMEOUT_EXIT_CODE,
      exitMemoryThread  |-> TIMEOUT_EXIT_CODE,
      exitCheckTimeout  |-> TIMEOUT_EXIT_CODE,
      timeoutDaemon     |-> TRUE,
      memoryDaemon      |-> TRUE ]

\* WrittenFiles without the guard file.
WrittenFiles_MainOnly(src, res) == {src}

\* Lines 97 and 105: the files opened for writing, each closed at the end
\* of its `with` block, before line 127.
WrittenFiles(src, res) == {src} \cup (IF res # NoFile THEN {res} ELSE {})

\* Lines 105-125: the lines written to the main source file.
MainSource(kotlin, guarded, s) ==
    IF ~kotlin
    THEN <<"public class Main {", "public static void main(String[] args) {">>
         \o (IF guarded THEN <<"ResourceLimit.checkTimeout();">> ELSE <<>>)
         \o <<"try {">> \o s
         \o <<"} catch (Exception e) {", "e.printStackTrace();", "}", "}", "}">>
    ELSE IF ~InText("fun main", s)
         THEN <<"fun main() {">> \o s \o <<"}">>
         ELSE s

\* Lines 128-147: the compile stage's argument vector.
CompileCmd(kotlin, src, res, tmp) ==
    IF kotlin
    THEN <<compiler_cl, src, <<"-include-runtime">>, <<"-d">>,
           tmp \o <<"/Main", ".jar">>>>
    ELSE IF res # NoFile THEN <<compiler_cl, src, res>>
    ELSE <<compiler_cl, src>>

\* Lines 154-167: the run stage's argument vector.
RunCmd(kotlin, src, tmp, cls) ==
    IF kotlin
    THEN <<run_cl, <<"-jar">>, replace(src, ".kt", ".jar")>>
    ELSE <<run_cl, <<"-cp">>, tmp, <<cls>>>>


\* ------------------------------------------------------------ result model
\* ProcessExecuteResult(stdout, stderr, exit_code, cost).
ProcessExecuteResult(out, err, code, cost) ==
    [stdout |-> out, stderr |-> err, exit_code |-> code, cost |-> cost]

\* ProcessExecuteResult.success.
success(r) == r.exit_code = 0

NoResult == ProcessExecuteResult(<<>>, <<>>, -1, -1)
NoException == [type |-> "none", args |-> <<>>]

\* CompileError(result.stderr), and the exception of a ProcessRunner that
\* could not start the process.
CompileError(err) == [type |-> "CompileError", args |-> err]
EnvironmentFailure == [type |-> "FileNotFoundError", args |-> <<"No such file">>]

\* str(e) of an exception made with one argument.
str(e) == e.args

\* What the compiler's process can give: success for a source that compiles,
\* else a failure with its diagnostics.
CompileDiagnostics == { <<>>, <<"Main.java:3: error: ';' expected">> }
CompileCosts == {0, 30}

CompileResults(g) ==
    IF g.compiles
    THEN { ProcessExecuteResult(<<>>, <<>>, 0, c) : c \in CompileCosts \ {0} }
    ELSE { ProcessExecuteResult(o, e, x, c) :
             o \in { <<>>, <<"1 error">> }, e \in CompileDiagnostics,
             x \in {1, TIMEOUT_EXIT_CODE}, c \in CompileCosts }


\* AfterCompile with the check of line 150 inverted.
AfterCompile_Inverted(r) ==
    IF success(r)
    THEN [raise |-> TRUE, exc |-> CompileError(r.stderr)]
    ELSE [raise |-> FALSE, exc |-> NoException]

\* AfterCompile without the check of line 150.
AfterCompile_NoCheck(r) == [raise |-> FALSE, exc |-> NoException]

\* Lines 149-169, the generator resumed with the compile stage's result:
\* it raises CompileError or yields the run stage.
AfterCompile(r) ==
    IF ~success(r)
    THEN [raise |-> TRUE, exc |-> CompileError(r.stderr)]
    ELSE [raise |-> FALSE, exc |-> NoException]

\* AfterRun treating a failed run stage as the compile stage is treated.
AfterRun_Checked(r) ==
    IF ~success(r)
    THEN [raise |-> TRUE, exc |-> CompileError(r.stderr)]
    ELSE [raise |-> FALSE, exc |-> NoException]

\* Line 169, the generator resumed with the run stage's result: it ends.
AfterRun(r) == [raise |-> FALSE, exc |-> NoException]

\* ExecuteScriptExcept reporting the compile stage's cost and no stderr.
ExecuteScriptExcept_NoStderr(e) ==
    IF e.type = "CompileError"
    THEN [returns |-> TRUE,
          value |-> ProcessExecuteResult(<<>>, <<>>, COMPILE_ERROR_EXIT_CODE, 0),
          exc |-> NoException]
    ELSE [returns |-> FALSE, value |-> NoResult, exc |-> e]

\* ExecuteScriptExcept with `except Exception` in place of line 174.
ExecuteScriptExcept_CatchAll(e) ==
    [returns |-> TRUE,
     value |-> ProcessExecuteResult(<<>>, str(e), COMPILE_ERROR_EXIT_CODE, 0),
     exc |-> NoException]

\* Lines 171-175: what execute_script does with an exception that leaves
\* super().execute_script.
ExecuteScriptExcept(e) ==
    IF e.type = "CompileError"
    THEN [returns |-> TRUE,
          value |-> ProcessExecuteResult(<<>>, str(e), COMPILE_ERROR_EXIT_CODE, 0),
          exc |-> NoException]
    ELSE [returns |-> FALSE, value |-> NoResult, exc |-> e]

\* PassedTimeout with the timeout left out of the call.
PassedTimeout_Dropped(t) == 0

\* Line 173: the timeout execute_script hands to super().execute_script.
PassedTimeout(t) == t

\* The timeout the ProcessRunner applies to a stage: the request's override
\* as it was handed on, else the executor's own.
RunnerTimeout ==
    IF PassedTimeout(req_timeout) # 0 THEN PassedTimeout(req_timeout) ELSE timeout

\* -------------------------------------------------------------------- Init
Init ==
    /\ timeout \in Timeouts
    /\ memory_limit \in MemoryLimits
    /\ script \in Scripts
    /\ tmp_path \in TmpPaths
    /\ req_timeout \in RequestTimeouts
    /\ guest \in Guests
    /\ source_file = NoFile
    /\ class_name = ""
    /\ is_kotlin = FALSE
    /\ resource_file = NoFile
    /\ compile_cmd = <<>>
    /\ run_cmd = <<>>
    /\ files = {}
    /\ main_text = <<>>
    /\ guard_text = ResourceLimitSource(0, 0)
    /\ pc = "start"
    /\ stages = <<>>
    /\ runner_calls = <<>>
    /\ result = NoResult
    /\ compile_result = NoResult
    /\ runner_raised = FALSE
    /\ returned = NoResult
    /\ raised = NoException
    /\ now = 0
    /\ proc = [state |-> "none", stdout |-> <<>>, stderr |-> <<>>]
    /\ startTime = 0
    /\ mainThread = "none"
    /\ timeoutThread = "none"
    /\ timeoutWake = 0
    /\ memoryThread = "none"
    /\ memoryWake = 0
    /\ usedMemory = 0
    /\ crossTime = -1
    /\ exitCause = "none"

\* ------------------------------------------------------------ the pipeline
\* setup_command up to its first yield (lines 75-149).
Setup ==
    /\ pc = "start"
    /\ LET d == Dialect(script)
           src == tmp_path \o <<"/Main", d.ext>>
           guarded == WantsGuard(d.is_kotlin, timeout, memory_limit)
           res == IF guarded THEN tmp_path \o <<"/ResourceLimit", ".java">>
                  ELSE NoFile
           cmd == CompileCmd(d.is_kotlin, src, res, tmp_path)
       IN /\ source_file' = src
          /\ class_name' = d.class_name
          /\ is_kotlin' = d.is_kotlin
          /\ resource_file' = res
          /\ files' = WrittenFiles(src, res)
          /\ guard_text' = IF guarded
                           THEN ResourceLimitSource(timeout, memory_limit)
                           ELSE guard_text
          /\ main_text' = MainSource(d.is_kotlin, res # NoFile, script)
          /\ compile_cmd' = cmd
          /\ stages' = <<cmd>>
    /\ pc' = "compile_yielded"
    /\ UNCHANGED <<requestVars, run_cmd, runner_calls, result, compile_result,
                   runner_raised, returned, raised, procVars>>

\* The ProcessRunner runs the compile stage and gives its result.
CompileStage ==
    /\ pc = "compile_yielded"
    /\ runner_calls' = Append(runner_calls, compile_cmd)
    /\ result' \in CompileResults(guest)
    /\ pc' = "compile_result"
    /\ UNCHANGED <<requestVars, setupVars, stages, compile_result, runner_raised,
                   returned, raised, procVars>>

\* The ProcessRunner cannot start the process of the stage it was given:
\* its exception leaves super().execute_script and meets lines 174-175.
RunnerFails ==
    /\ pc \in {"compile_yielded", "run_yielded"}
    /\ runner_calls' = Append(runner_calls, stages[Len(stages)])
    /\ LET h == ExecuteScriptExcept(EnvironmentFailure)
       IN /\ returned' = h.value
          /\ raised' = h.exc
          /\ pc' = IF h.returns THEN "returned" ELSE "raised"
    /\ runner_raised' = TRUE
    /\ UNCHANGED <<requestVars, setupVars, stages, result, compile_result,
                   procVars>>

\* The generator is resumed with the compile stage's result.
ResumeAfterCompile ==
    /\ pc = "compile_result"
    /\ compile_result' = result
    /\ LET a == AfterCompile(result)
       IN IF a.raise
          THEN LET h == ExecuteScriptExcept(a.exc)
               IN /\ returned' = h.value
                  /\ raised' = h.exc
                  /\ pc' = IF h.returns THEN "returned" ELSE "raised"
                  /\ UNCHANGED <<run_cmd, stages>>
          ELSE /\ run_cmd' = RunCmd(is_kotlin, source_file, tmp_path, class_name)
               /\ stages' = Append(stages, run_cmd')
               /\ pc' = "run_yielded"
               /\ UNCHANGED <<returned, raised>>
    /\ UNCHANGED <<requestVars, source_file, class_name, is_kotlin, resource_file,
                   compile_cmd, files, main_text, guard_text, runner_calls,
                   result, runner_raised, procVars>>

\* The generator is resumed with the run stage's result and ends; the last
\* result is what super().execute_script returns.
ResumeAfterRun ==
    /\ pc = "run_result"
    /\ LET a == AfterRun(result)
       IN IF a.raise
          THEN LET h == ExecuteScriptExcept(a.exc)
               IN /\ returned' = h.value
                  /\ raised' = h.exc
                  /\ pc' = IF h.returns THEN "returned" ELSE "raised"
          ELSE /\ returned' = result
               /\ raised' = NoException
               /\ pc' = "returned"
    /\ UNCHANGED <<requestVars, setupVars, stages, runner_calls, result,
                   compile_result, runner_raised, procVars>>


\* ------------------------------------------------------- the guest process
\* The exit status of a process that called System.exit(n).
ExitStatus(n) == n % 256

\* The wrapper calls ResourceLimit.checkTimeout(), which loads the class.
CallsGuard == InText("ResourceLimit.checkTimeout();", main_text)

\* The process ends: the ProcessRunner collects its result.
Ends(code, cause, errs) ==
    /\ proc' = [state |-> "exited", stdout |-> proc.stdout,
                stderr |-> proc.stderr \o errs]
    /\ exitCause' = cause
    /\ result' = ProcessExecuteResult(proc.stdout, proc.stderr \o errs, code, now)
    /\ pc' = "run_result"
    /\ UNCHANGED <<now, startTime, mainThread, timeoutThread, timeoutWake,
                   memoryThread, memoryWake, usedMemory, crossTime>>
    /\ UNCHANGED <<requestVars, setupVars, stages, runner_calls, compile_result,
                   runner_raised, returned, raised>>

\* System.exit replaced by a thrown exception: the thread that decided to
\* end the process ends alone, and the process goes on.
GuardTerminates_Throws(code, cause, errs) ==
    /\ exitCause' = cause
    /\ timeoutThread' = IF cause = "timeoutThread" THEN "done" ELSE timeoutThread
    /\ memoryThread' = IF cause = "memoryThread" THEN "done" ELSE memoryThread
    /\ mainThread' = IF cause = "checkTimeout" THEN "died" ELSE mainThread
    /\ UNCHANGED <<requestVars, setupVars, pipeVars, now, proc, startTime,
                   timeoutWake, memoryWake, usedMemory, crossTime>>

\* System.err.println and System.exit({TIMEOUT_EXIT_CODE}) of lines 26-27,
\* 43-44 and 60-61: the process ends whatever its other threads are doing.
GuardTerminates(code, cause, errs) == Ends(code, cause, errs)

\* The call of ResourceLimit.checkTimeout() is the first statement of
\* main, before the try block that holds the guest's code.
GuardCalledFirst ==
    \E i \in 1..Len(main_text) :
        /\ main_text[i] = "ResourceLimit.checkTimeout();"
        /\ \A j \in 1..(i - 1) : main_text[j] \in
               {"public class Main {", "public static void main(String[] args) {"}

\* The ProcessRunner starts the process of the run stage.
RunStage ==
    /\ pc = "run_yielded"
    /\ runner_calls' = Append(runner_calls, run_cmd)
    /\ pc' = "running"
    /\ proc' = [state |-> "alive", stdout |-> <<>>, stderr |-> <<>>]
    /\ mainThread' = "entry"
    /\ now' = 0
    /\ UNCHANGED <<requestVars, setupVars, stages, result, compile_result,
                   runner_raised, returned, raised, startTime, timeoutThread, timeoutWake, memoryThread,
                   memoryWake, usedMemory, crossTime, exitCause>>

\* main() begins.  With guard code its first statement loads ResourceLimit:
\* the static initialiser (lines 17-55) takes the start time and starts the
\* watchdog threads.
MainEnter ==
    /\ pc = "running" /\ mainThread = "entry"
    /\ IF GuardCalledFirst
       THEN /\ startTime' = now
            /\ timeoutThread' = "sleeping"
            /\ timeoutWake' = now + guard_text.sleep
            /\ IF guard_text.memoryLimitBytes > 0
               THEN memoryThread' = "waiting" /\ memoryWake' = now
               ELSE UNCHANGED <<memoryThread, memoryWake>>
            /\ mainThread' = "check"
       ELSE /\ mainThread' = "body"
            /\ UNCHANGED <<startTime, timeoutThread, timeoutWake, memoryThread,
                           memoryWake>>
    /\ UNCHANGED <<requestVars, setupVars, pipeVars, now, proc, usedMemory,
                   crossTime, exitCause>>

\* checkTimeout (lines 57-63), with the nanoseconds since the start time.
CheckTimeoutFires(elapsedNanos, g) == elapsedNanos > g.timeoutNanos

\* Nanoseconds the millisecond clock does not show.
SubMillis == {0, 1}

MainCheckTimeout ==
    /\ pc = "running" /\ mainThread = "check"
    /\ \E frac \in SubMillis :
         IF CheckTimeoutFires((now - startTime) * 1000000 + frac, guard_text)
         THEN GuardTerminates(ExitStatus(guard_text.exitCheckTimeout),
                              "checkTimeout", <<"Suicide from timeout.">>)
         ELSE /\ mainThread' = "body"
              /\ UNCHANGED <<requestVars, setupVars, pipeVars, now, proc,
                             startTime, timeoutThread, timeoutWake, memoryThread,
                             memoryWake, usedMemory, crossTime, exitCause>>

\* The guest's body ends the program, having written its output: with
\* System.exit for an exit code other than 0, by returning for 0.
GuestExit ==
    /\ pc = "running" /\ mainThread = "body" /\ guest.kind = "exit"
    /\ mainThread' = "done"
    /\ IF guest.code # 0
       THEN /\ proc' = [state |-> "exited", stdout |-> <<"42">>,
                        stderr |-> proc.stderr]
            /\ exitCause' = "guest"
            /\ result' = ProcessExecuteResult(<<"42">>, proc.stderr,
                                              ExitStatus(guest.code), now)
            /\ pc' = "run_result"
       ELSE /\ proc' = [proc EXCEPT !.stdout = <<"42">>]
            /\ UNCHANGED <<exitCause, result, pc>>
    /\ UNCHANGED <<requestVars, setupVars, stages, runner_calls, compile_result,
                   runner_raised, returned, raised, now, startTime,
                   timeoutThread, timeoutWake, memoryThread, memoryWake,
                   usedMemory, crossTime>>

\* The handler the wrapper puts around the guest's code catches what a guest
\* of this kind throws: lines 113-115 catch java.lang.Exception.
WrapperCatches(text, kind) ==
    kind = "throw" /\ InText("} catch (Exception e) {", text)

\* The guest's code throws.  Caught by the wrapper, the stack trace is
\* printed and main returns; else the exception leaves main and the main
\* thread ends with it.
GuestThrows ==
    /\ pc = "running" /\ mainThread = "body" /\ guest.kind \in {"throw", "error"}
    /\ IF WrapperCatches(main_text, guest.kind)
       THEN /\ mainThread' = "done"
            /\ proc' = [proc EXCEPT !.stderr = @ \o <<"java.lang.RuntimeException">>]
       ELSE /\ mainThread' = "died"
            /\ proc' = [proc EXCEPT !.stderr =
                          @ \o <<"Exception in thread \"main\"">>]
    /\ UNCHANGED <<requestVars, setupVars, pipeVars, now, startTime,
                   timeoutThread, timeoutWake, memoryThread, memoryWake,
                   usedMemory, crossTime, exitCause>>

\* A watchdog thread that keeps the JVM alive: started and not a daemon.
KeepsAlive ==
    \/ timeoutThread = "sleeping" /\ ~guard_text.timeoutDaemon
    \/ memoryThread = "waiting" /\ ~guard_text.memoryDaemon

\* The main thread has ended and no thread that is not a daemon is left:
\* the JVM exits, with status 1 if an exception left main.
JvmExits ==
    /\ pc = "running" /\ mainThread \in {"done", "died"}
    /\ ~KeepsAlive
    /\ proc' = [proc EXCEPT !.state = "exited"]
    /\ exitCause' = IF mainThread = "died" THEN "uncaught" ELSE "guest"
    /\ result' = ProcessExecuteResult(proc.stdout, proc.stderr,
                                      IF mainThread = "died" THEN 1 ELSE 0, now)
    /\ pc' = "run_result"
    /\ UNCHANGED <<requestVars, setupVars, stages, runner_calls, compile_result,
                   runner_raised, returned, raised, now, startTime, mainThread,
                   timeoutThread, timeoutWake, memoryThread, memoryWake,
                   usedMemory, crossTime>>

\* The guest's body allocates.
GuestAlloc ==
    /\ pc = "running" /\ mainThread = "body" /\ guest.kind = "alloc"
    /\ usedMemory < MaxUsage
    /\ usedMemory' = usedMemory + 1
    /\ crossTime' = IF crossTime = -1 /\ memory_limit # 0
                       /\ usedMemory' > memory_limit
                    THEN now ELSE crossTime
    /\ UNCHANGED <<requestVars, setupVars, pipeVars, now, proc, startTime,
                   mainThread, timeoutThread, timeoutWake, memoryThread,
                   memoryWake, exitCause>>

\* The timeout watchdog (lines 23-33) wakes from Thread.sleep and exits.
TimeoutThreadFires ==
    /\ pc = "running" /\ timeoutThread = "sleeping" /\ now >= timeoutWake
    /\ GuardTerminates(ExitStatus(guard_text.exitTimeoutThread), "timeoutThread",
                       <<"Suicide from timeout.">>)

\* PollSleep of a watchdog that polls every second.
PollSleep_Second == 10 * MEMORY_POLL_MS

\* The sleep of the memory watchdog between two polls (line 46).
PollSleep == MEMORY_POLL_MS

\* The memory watchdog (lines 37-51) polls: it exits or sleeps again.
MemoryThreadPolls ==
    /\ pc = "running" /\ memoryThread = "waiting" /\ now >= memoryWake
    /\ IF usedMemory > guard_text.memoryLimitBytes
       THEN GuardTerminates(ExitStatus(guard_text.exitMemoryThread),
                            "memoryThread", <<"Memory limit exceeded.">>)
       ELSE /\ memoryWake' = now + PollSleep
            /\ UNCHANGED <<requestVars, setupVars, pipeVars, now, proc, startTime,
                           mainThread, timeoutThread, timeoutWake, memoryThread,
                           usedMemory, crossTime, exitCause>>

\* The ProcessRunner's own timeout ends the process.
RunnerTimesOut ==
    /\ pc = "running" /\ RunnerTimeout # 0 /\ now >= RunnerTimeout
    /\ Ends(TIMEOUT_EXIT_CODE, "runner", <<>>)

\* The times by which a thread whose sleep has ended must have run.
Deadlines ==
    (IF timeoutThread = "sleeping" THEN {timeoutWake + SchedLatency} ELSE {})
      \cup (IF memoryThread = "waiting" THEN {memoryWake + SchedLatency} ELSE {})
      \cup (IF RunnerTimeout # 0 THEN {RunnerTimeout + SchedLatency} ELSE {})

Min(S) == CHOOSE x \in S : \A y \in S : x <= y

\* Time passes while the process runs; a JVM whose last thread that is not
\* a daemon has ended exits at once.
Tick ==
    /\ pc = "running"
    /\ now < MaxTime \/ timeoutThread = "sleeping" \/ RunnerTimeout # 0
    /\ \A d \in Deadlines : now < d
    /\ ~(mainThread \in {"done", "died"} /\ ~KeepsAlive)
    /\ now' = Min({now + TickStep} \cup Deadlines)
    /\ UNCHANGED <<requestVars, setupVars, pipeVars, proc, startTime, mainThread,
                   timeoutThread, timeoutWake, memoryThread, memoryWake,
                   usedMemory, crossTime, exitCause>>

Next ==
    \/ Setup
    \/ CompileStage
    \/ RunnerFails
    \/ ResumeAfterCompile
    \/ RunStage
    \/ MainEnter
    \/ MainCheckTimeout
    \/ GuestExit
    \/ GuestThrows
    \/ JvmExits
    \/ GuestAlloc
    \/ TimeoutThreadFires
    \/ MemoryThreadPolls
    \/ RunnerTimesOut
    \/ Tick
    \/ ResumeAfterRun

Spec == Init /\ [][Next]_vars

\* The threads of a running JVM are scheduled preemptively, the clock
\* advances, and the ProcessRunner and the orchestrator do not stop.
FairSpec ==
    /\ Spec
    /\ WF_vars(MainEnter)
    /\ WF_vars(MainCheckTimeout)
    /\ WF_vars(JvmExits)
    /\ WF_vars(TimeoutThreadFires)
    /\ WF_vars(MemoryThreadPolls)
    /\ WF_vars(RunnerTimesOut)
    /\ WF_vars(Tick)
    /\ WF_vars(ResumeAfterRun)


\* ================================================================== claims
\* The generator was resumed with an unsuccessful compile stage result.
CompileFailed == compile_result # NoResult /\ ~success(compile_result)

\* The generator was resumed with a successful compile stage result.
CompileSucceeded == compile_result # NoResult /\ success(compile_result)

\* The request is over: execute_script returned or raised.
Over == pc \in {"returned", "raised"}

\* C1: whenever the compile stage's result is unsuccessful, execute_script
\* returns (raises nothing) a result with exit_code COMPILE_ERROR_EXIT_CODE,
\* empty stdout, the compile stage's stderr and cost 0, in both dialects.
C1_CompileErrorResult ==
    CompileFailed =>
        /\ pc = "returned"
        /\ raised = NoException
        /\ returned.exit_code = COMPILE_ERROR_EXIT_CODE
        /\ returned.stdout = <<>>
        /\ returned.stderr = compile_result.stderr
        /\ returned.cost = 0

\* A Kotlin request whose compile stage failed with diagnostics, output and
\* a cost has returned.
C1_Witness ==
    /\ CompileFailed /\ pc = "returned" /\ is_kotlin
    /\ compile_result.stderr # <<>>
    /\ compile_result.stdout # <<>>
    /\ compile_result.cost # 0

\* C2: once the compile stage's result is unsuccessful, the run stage is
\* never yielded and the ProcessRunner is not invoked again: the compile
\* stage stays the only stage and the only invocation, and no guest process
\* is ever started.
C2_NoStageAfterFailedCompile ==
    CompileFailed =>
        /\ Len(stages) = 1
        /\ Len(runner_calls) = 1
        /\ run_cmd = <<>>
        /\ proc.state = "none"
        /\ ~ENABLED RunStage
        /\ ~ENABLED RunnerFails

\* A request is over after a failed compile stage.
C2_Witness == CompileFailed /\ Over /\ ~is_kotlin

\* The run stage's process has ended and its result was collected.
RunEnded == exitCause # "none"

\* C3: after a successful compile stage, whatever the run stage's result
\* is, nothing is raised and execute_script returns that result unchanged
\* (stdout, stderr, exit code, cost): it is never made a COMPILE_ERROR.
C3_RunResultPassedThrough ==
    /\ (pc = "run_result" => CompileSucceeded /\ RunEnded)
    /\ (RunEnded /\ Over =>
            /\ pc = "returned"
            /\ raised = NoException
            /\ returned = result
            /\ returned.exit_code # COMPILE_ERROR_EXIT_CODE)

\* A guest that ended with a non-zero exit code had it returned.
C3_Witness ==
    /\ pc = "returned" /\ exitCause = "guest"
    /\ guest.code # 0 /\ returned.exit_code = guest.code


\* The guard file was written and compiled in: class-wrapper dialect with a
\* timeout or a memory limit.
GuardInjected == ~is_kotlin /\ resource_file # NoFile

\* The guest process ended without having exceeded a limit that was
\* requested: it ran for less than the executor's timeout since the guard's
\* start time, for less than the ProcessRunner's timeout, and its heap
\* never went over the memory ceiling.
WithinBudget ==
    /\ timeout # 0 => result.cost - startTime < timeout
    /\ RunnerTimeout # 0 => result.cost < RunnerTimeout
    /\ memory_limit # 0 => usedMemory <= memory_limit

\* C4: a class-wrapper guest that compiles and ends within its budget, with
\* guard code injected (timeout only, memory limit only, or both), has its
\* own exit code and exactly its own output in the result: no watchdog and
\* no checkTimeout call ends a process that exceeded no requested limit.
C4_GuestResultWithinBudget ==
    (RunEnded /\ GuardInjected /\ guest.kind = "exit" /\ WithinBudget) =>
        /\ result.exit_code = guest.code
        /\ result.stdout = <<"42">>
        /\ result.stderr = <<>>

\* C4 where a timeout was requested: the claim holds there.
C4_WithTimeout == timeout # 0 => C4_GuestResultWithinBudget

\* A guarded guest with a timeout ended on its own, with its own exit code.
C4_WithTimeout_Witness ==
    /\ RunEnded /\ GuardInjected /\ guest.kind = "exit" /\ WithinBudget
    /\ timeout # 0 /\ exitCause = "guest" /\ result.exit_code = 3


\* The backend is suspended: it yielded a stage and has not been resumed.
Suspended == pc \in {"compile_yielded", "compile_result", "run_yielded",
                     "running", "run_result"}

\* What the backend works on: its locals and the scratch directory.
backendVars == <<setupVars, stages, compile_result>>

\* C5: the backend yields the compile stage first and the run stage second,
\* at most two stages; the run stage is yielded only once the compile
\* stage's result was sent back and was successful; the ProcessRunner is
\* given the stages in that order, one at a time; and between yielding a
\* stage and being resumed the backend changes nothing.
C5_StagesInOrder ==
    /\ [](/\ Len(stages) <= 2
          /\ Len(stages) >= 1 => stages[1] = compile_cmd /\ compile_cmd # <<>>
          /\ Len(stages) = 2 =>
                /\ stages[2] = run_cmd /\ run_cmd # <<>>
                /\ CompileSucceeded
                /\ runner_calls[1] = compile_cmd
          /\ Len(runner_calls) <= Len(stages)
          /\ \A i \in 1..Len(runner_calls) : runner_calls[i] = stages[i])
    /\ [][(Suspended /\ Suspended' /\ pc' # "run_yielded")
             => UNCHANGED backendVars]_vars

\* The run stage was yielded after a compile stage that had a cost.
C5_Witness ==
    /\ Len(stages) = 2 /\ pc = "run_yielded" /\ compile_result.cost # 0
    /\ is_kotlin

\* A class-wrapper guest that never ends, run with a timeout and guard code.
GuardedLoop ==
    /\ pc = "running" /\ GuardInjected /\ timeout # 0
    /\ guest.kind \in {"loop", "alloc"}

\* C6: a class-wrapper guest that never ends on its own, run with timeout
\* T and guard code, is in the end terminated and the result's exit code is
\* TIMEOUT_EXIT_CODE; once the guard has started its watchdog the process
\* does not outlive T by more than the scheduling latency.
C6_LoopTimesOut ==
    /\ GuardedLoop ~> (pc = "returned" /\ returned.exit_code = TIMEOUT_EXIT_CODE)
    /\ []((pc = "running" /\ timeoutThread = "sleeping" /\ timeout # 0)
            => now - startTime <= timeout + SchedLatency)

\* The timeout watchdog ended a looping guest no earlier than T after the
\* guard's start time, and the TIMEOUT result was returned.
C6_Witness ==
    /\ pc = "returned" /\ GuardInjected /\ guest.kind = "loop"
    /\ exitCause = "timeoutThread"
    /\ returned.exit_code = TIMEOUT_EXIT_CODE
    /\ returned.cost - startTime >= timeout
    /\ timeout # 0

\* The scenario: the Kotlin source `fun main() { while(true) {} }`, which
\* compiles and loops, run with timeout = 500 ms.
LoopScenario ==
    /\ script = LoopScript /\ guest.compiles /\ guest.kind = "loop"
    /\ req_timeout = SCENARIO_TIMEOUT

\* C7: the script-style source `fun main() { while(true) {} }` run with
\* timeout = 500 ms gets no guard code, and once its process runs the
\* result returned is in the end classified TIMEOUT.
C7_KotlinLoopTimesOut ==
    /\ [](LoopScenario /\ pc # "start" =>
              is_kotlin /\ resource_file = NoFile /\ ~CallsGuard)
    /\ (LoopScenario /\ pc = "running")
          ~> (pc = "returned" /\ returned.exit_code = TIMEOUT_EXIT_CODE)

\* The scenario ended with the ProcessRunner's timeout and TIMEOUT returned.
C7_Witness ==
    /\ LoopScenario /\ pc = "returned" /\ is_kotlin
    /\ exitCause = "runner" /\ returned.exit_code = TIMEOUT_EXIT_CODE
    /\ returned.cost >= SCENARIO_TIMEOUT

\* C8: every termination forced by the guard code (timeout watchdog,
\* memory watchdog, checkTimeout) ends the process with TIMEOUT_EXIT_CODE,
\* the code the ProcessRunner's own timeout reports.
C8_OneTimeoutCode ==
    exitCause \in {"timeoutThread", "memoryThread", "checkTimeout", "runner"}
        => result.exit_code = TIMEOUT_EXIT_CODE

\* The memory watchdog ended a process.
C8_Witness ==
    /\ exitCause = "memoryThread" /\ result.exit_code = TIMEOUT_EXIT_CODE
    /\ pc = "returned"

\* Reached too: the other two guard paths and the ProcessRunner's timeout.
C8_WitnessTimeoutThread == exitCause = "timeoutThread" /\ pc = "returned"
C8_WitnessCheckTimeout == exitCause = "checkTimeout" /\ pc = "returned"
C8_WitnessRunner == exitCause = "runner" /\ pc = "returned"

\* C9: with guard code and a memory ceiling, a process whose heap usage
\* went over the ceiling is ended with TIMEOUT_EXIT_CODE within one polling
\* interval (and the scheduling latency of the watchdog thread) of the
\* crossing; without a memory ceiling no memory watchdog is started.
C9_MemoryWatchdog ==
    /\ (pc = "running" /\ GuardInjected /\ crossTime # -1)
          => now - crossTime <= MEMORY_POLL_MS + SchedLatency
    /\ (RunEnded /\ GuardInjected /\ crossTime # -1)
          => /\ result.exit_code = TIMEOUT_EXIT_CODE
             /\ result.cost - crossTime <= MEMORY_POLL_MS + SchedLatency
    /\ memory_limit = 0 => memoryThread = "none"
    /\ (GuardInjected /\ memory_limit # 0 /\ mainThread \in {"check", "body"})
          => memoryThread = "waiting"

\* The memory watchdog ended an allocating guest a full polling interval
\* after its heap usage went over the ceiling.
C9_Witness ==
    /\ exitCause = "memoryThread" /\ guest.kind = "alloc" /\ crossTime # -1
    /\ result.cost - crossTime >= MEMORY_POLL_MS
    /\ result.exit_code = TIMEOUT_EXIT_CODE

\* C10: a failure raised by the ProcessRunner, at either stage, leaves
\* execute_script as that exception: no result is returned for it, no
\* stage is run after it, and a COMPILE_ERROR result is returned only for a
\* failed compile stage.
C10_EnvironmentFailureSurfaced ==
    /\ runner_raised =>
          /\ pc = "raised"
          /\ raised = EnvironmentFailure
          /\ returned = NoResult
          /\ Len(runner_calls) = Len(stages)
          /\ proc.state = "none"
          /\ ~ENABLED Next
    /\ (pc = "returned" /\ returned.exit_code = COMPILE_ERROR_EXIT_CODE)
          => CompileFailed
    /\ pc = "raised" => runner_raised

\* The ProcessRunner failed on the run stage, after a successful compile.
C10_Witness ==
    /\ runner_raised /\ pc = "raised" /\ Len(runner_calls) = 2
    /\ CompileSucceeded


\* The path of the guard file in the scratch directory.
GuardPath == tmp_path \o <<"/ResourceLimit", ".java">>

\* The argument vector v names the path p.
Names(v, p) == \E i \in 1..Len(v) : v[i] = p

\* C12: guard code is generated and handed to the compile stage exactly
\* when the dialect is the class-wrapper one and a timeout or a memory
\* limit was requested: the ResourceLimit file is written exactly then, the
\* compile stage's argument vector names it exactly when it was written,
\* the wrapper calls ResourceLimit.checkTimeout() exactly when it was
\* written, and the script-style dialect never gets guard code.
C12_GuardIffJavaAndLimit ==
    pc # "start" =>
        /\ GuardPath \in files <=> (~is_kotlin /\ (timeout # 0 \/ memory_limit # 0))
        /\ Names(compile_cmd, GuardPath) <=> GuardPath \in files
        /\ CallsGuard <=> GuardPath \in files
        /\ resource_file = GuardPath <=> GuardPath \in files
        /\ is_kotlin => GuardPath \notin files /\ resource_file = NoFile

\* A class-wrapper request with a memory limit only yielded a compile
\* stage naming the guard file.
C12_Witness ==
    /\ pc = "compile_yielded" /\ ~is_kotlin /\ timeout = 0 /\ memory_limit # 0
    /\ GuardPath \in files /\ Names(compile_cmd, GuardPath) /\ CallsGuard

\* Reached too: a Kotlin request with both limits and no guard file.
C12_WitnessKotlin ==
    /\ pc = "compile_yielded" /\ is_kotlin /\ timeout # 0 /\ memory_limit # 0
    /\ GuardPath \notin files

\* The markers of the script: a class declaration ("class " in the first
\* DETECT_WINDOW characters, or "public class" at the start of the stripped
\* text), `fun main` and the word "kotlin" in the first DETECT_WINDOW
\* characters.
HasClassMarker ==
    \/ InPrefix("class ", script, DETECT_WINDOW)
    \/ startswith(strip(script), "public class")
HasFunMainMarker == InPrefix("fun main", script, DETECT_WINDOW)
HasKotlinWord ==
    \E i \in 1..Len(script) :
        /\ script[i] \in {"kotlin", "Kotlin"}
        /\ Offset(script, i) + TokLen(script[i]) <= DETECT_WINDOW

\* The class-wrapper dialect was chosen.
ClassWrapper ==
    /\ ~is_kotlin /\ class_name = "Main"
    /\ source_file = tmp_path \o <<"/Main", ".java">>

\* C13 as stated: a source with neither a class declaration nor `fun main`
\* in its first 200 characters gets the class-wrapper dialect, and so does
\* a source with both.
C13_NeitherOrBothIsClassWrapper ==
    (pc # "start" /\ (HasClassMarker <=> HasFunMainMarker)) => ClassWrapper

\* C13, amended: a source whose first 200 characters hold neither a class
\* declaration, nor `fun main`, nor the word "kotlin" in any letter case
\* gets the class-wrapper dialect, and so does every source with a class
\* declaration there, whatever else it holds.
C13_DialectByMarkers ==
    pc # "start" =>
        /\ (~HasClassMarker /\ ~HasFunMainMarker /\ ~HasKotlinWord) => ClassWrapper
        /\ HasClassMarker => ClassWrapper

\* `System.out.println(42);` was given the class-wrapper dialect.
C13_Witness ==
    /\ pc # "start" /\ script = <<"System.out.println(42);">>
    /\ ~HasClassMarker /\ ~HasFunMainMarker /\ ~HasKotlinWord /\ ClassWrapper

\* Reached too: a source with both markers was given the class-wrapper
\* dialect.
C13_WitnessBoth ==
    pc # "start" /\ HasClassMarker /\ HasFunMainMarker /\ ClassWrapper

\* C17: in the script-style dialect the jar the run stage executes is the
\* jar the compile stage was told to produce with -d.
C17_RunsCompiledJar ==
    (is_kotlin /\ run_cmd # <<>>) =>
        /\ compile_cmd[4] = <<"-d">>
        /\ run_cmd[2] = <<"-jar">>
        /\ run_cmd[3] = compile_cmd[5]

\* C17 for scratch directories whose path does not contain ".kt".
C17_PlainPath ==
    (\A i \in 1..Len(tmp_path) : tmp_path[i] # ".kt") => C17_RunsCompiledJar

\* C18: before the compile stage is yielded the main source file is
\* written in full and every file the compile stage's argument vector
\* names in the scratch directory has been written; from then on the
\* backend writes or changes no file.
C18_FilesWrittenBeforeCompile ==
    /\ [](pc # "start" =>
            /\ source_file \in files /\ Names(compile_cmd, source_file)
            /\ resource_file # NoFile => resource_file \in files
            /\ \A p \in {source_file, GuardPath} :
                   Names(compile_cmd, p) => p \in files
            /\ \A p \in files : p \in {source_file, GuardPath}
            /\ main_text # <<>> /\ \A i \in 1..Len(script) : InText(script[i], main_text)
            /\ ~is_kotlin => main_text[Len(main_text)] = "}")
    /\ [][pc # "start" => UNCHANGED <<files, main_text, guard_text>>]_vars

\* The compile stage was yielded with both files written.
C18_Witness ==
    /\ pc = "compile_yielded" /\ Cardinality(files) = 2
    /\ Names(compile_cmd, GuardPath)


\* The guest's code has been entered.
InGuestCode == mainThread \in {"body", "done", "died"}

\* The guard code decided to end the process.
GuardDecided == exitCause \in {"timeoutThread", "memoryThread", "checkTimeout"}

\* C14: with guard code, the static initialiser and the checkTimeout call
\* have run before the guest's code is entered, so the watchdogs are
\* already started then; and once a watchdog or checkTimeout decides to end
\* the process, the process has exited with TIMEOUT_EXIT_CODE, whatever the
\* guest's code or the wrapper's handler is doing.
C14_GuardFirstAndFinal ==
    /\ (GuardInjected /\ pc = "running" /\ InGuestCode) =>
          /\ GuardCalledFirst
          /\ timeoutThread = "sleeping"
          /\ memory_limit # 0 => memoryThread = "waiting"
    /\ GuardDecided =>
          /\ proc.state = "exited"
          /\ result.exit_code = TIMEOUT_EXIT_CODE
          /\ pc \in {"run_result", "returned"}

\* The timeout watchdog ended a process whose main thread had caught the
\* guest's exception in the wrapper's handler.
C14_Witness ==
    /\ exitCause = "timeoutThread" /\ GuardInjected /\ guest.kind = "throw"
    /\ mainThread = "done" /\ result.exit_code = TIMEOUT_EXIT_CODE

\* Reached too: a watchdog ended a process inside the guest's code.
C14_WitnessBody ==
    /\ exitCause = "memoryThread" /\ mainThread = "body" /\ pc = "returned"

\* C15: in both dialects whatever the guest's code throws is caught and
\* reported by the wrapper: nothing thrown leaves the entry point.
C15_WrapperCatchesAll ==
    /\ mainThread # "died"
    /\ exitCause # "uncaught"

\* C15 for a java.lang.Exception in the class-wrapper dialect: it is caught
\* and its stack trace printed.
C15_JavaException ==
    (~is_kotlin /\ guest.kind = "throw") =>
        /\ mainThread # "died" /\ exitCause # "uncaught"
        /\ mainThread = "done" => InText("java.lang.RuntimeException", proc.stderr)

\* C16: a main thread that has ended is never kept waiting by a watchdog
\* thread: the JVM can exit at once, and the request comes to its end.
C16_WatchdogsAreDaemons ==
    /\ []((pc = "running" /\ mainThread \in {"done", "died"}) => ~KeepsAlive)
    /\ (pc = "running" /\ mainThread = "done") ~> (pc = "returned")

\* The JVM exited after main while both watchdogs were still waiting, the
\* timeout watchdog with its sleep not over.
C16_Witness ==
    /\ exitCause = "guest" /\ guest.kind = "exit" /\ guest.code = 0
    /\ timeoutThread = "sleeping" /\ memoryThread = "waiting"
    /\ result.cost < timeoutWake /\ result.exit_code = 0

====
